---- MODULE Spec2Model ----
(***************************************************************************)
(* A model of chromatic.spectra.phoenix.PHOENIXLibrary: the grid files on  *)
(* disk, the attributes _load_grid installs on the library object, and the *)
(* lookup / interpolation done by get_spectrum, _find_bounds,              *)
(* _get_interpolation_weights and _find_smallest_R.                        *)
(*                                                                         *)
(* Numbers.  Grid coordinates and query coordinates are small integers.    *)
(* Every float the code computes with (weights, fluxes) is an exact        *)
(* rational <<n, d>> in lowest terms with d > 0; <<0, 0>> is nan.  Float   *)
(* rounding is not modelled.  np.log is a strictly increasing fixed-point  *)
(* approximation of the natural logarithm (Log below).                     *)
(***************************************************************************)
EXTENDS Integers, Sequences, FiniteSets, TLC

VARIABLES
    disk,        \* the grid file each resolution has on disk
    directory,   \* whether self._directory_for_new_grids is set
    metadata,    \* self.metadata
    models,      \* self.models
    units,       \* self.units
    wavelength,  \* self.wavelength
    last         \* the most recent call: [op, args, out]

vars == <<disk, directory, metadata, models, units, wavelength, last>>

grid == <<metadata, models, units, wavelength>>

(* ------------------------------ bounds -------------------------------- *)

\* queries ask for temperature in 0..MaxT, logg in 0..MaxG, metallicity in 0..MaxZ
MaxT == 4
MaxG == 4
MaxZ == 3

\* direct calls of _get_interpolation_weights take value and bounds in 0..MaxW
MaxW == 3

(* --------------------------- small helpers ---------------------------- *)

Range(s) == {s[i] : i \in 1..Len(s)}

Abs(n) == IF n < 0 THEN -n ELSE n

RECURSIVE Gcd(_, _)
Gcd(a, b) == IF b = 0 THEN a ELSE Gcd(b, a % b)

NaN == <<0, 0>>

IsNaN(x) == x[2] = 0

\* the rational n/d in lowest terms; a zero divisor gives nan
Rat(n, d) ==
    IF d = 0 THEN NaN
    ELSE LET g == Gcd(Abs(n), Abs(d))
             s == IF d < 0 THEN -1 ELSE 1
         IN  <<(s * n) \div g, (s * d) \div g>>

RInt(n) == <<n, 1>>

RAdd(x, y) == IF IsNaN(x) \/ IsNaN(y) THEN NaN
              ELSE Rat(x[1] * y[2] + y[1] * x[2], x[2] * y[2])

RSub(x, y) == IF IsNaN(x) \/ IsNaN(y) THEN NaN
              ELSE Rat(x[1] * y[2] - y[1] * x[2], x[2] * y[2])

RMul(x, y) == IF IsNaN(x) \/ IsNaN(y) THEN NaN
              ELSE Rat(x[1] * y[1], x[2] * y[2])

RDiv(x, y) == IF IsNaN(x) \/ IsNaN(y) THEN NaN
              ELSE Rat(x[1] * y[2], x[2] * y[1])

\* x <= y; every comparison with nan is false
RLe(x, y) == ~IsNaN(x) /\ ~IsNaN(y) /\ x[1] * y[2] <= y[1] * x[2]

RAbs(x) == <<Abs(x[1]), x[2]>>

RECURSIVE RSum(_)
RSum(s) == IF s = <<>> THEN RInt(0) ELSE RAdd(s[1], RSum(Tail(s)))

\* np.unique: the distinct values, ascending
RECURSIVE Unique(_)
Unique(S) ==
    IF S = {} THEN <<>>
    ELSE LET m == CHOOSE x \in S : \A y \in S : x <= y
         IN  <<m>> \o Unique(S \ {m})

\* np.min and np.max of an array; a ValueError on an empty one
RECURSIVE np_min(_)
np_min(s) ==
    IF s = <<>> THEN "ValueError"
    ELSE IF Len(s) = 1 THEN s[1]
    ELSE LET m == np_min(Tail(s)) IN IF s[1] < m THEN s[1] ELSE m

RECURSIVE np_max(_)
np_max(s) ==
    IF s = <<>> THEN "ValueError"
    ELSE IF Len(s) = 1 THEN s[1]
    ELSE LET m == np_max(Tail(s)) IN IF s[1] > m THEN s[1] ELSE m

\* np.log on a positive grid temperature: ln(n) in thousandths, summing
\* ln((k+1)/k) ~ 2/(2k+1) for k = 1..n-1
RECURSIVE Log(_)
Log(n) == IF n <= 1 THEN 0 ELSE Log(n - 1) + (2000 \div (2 * n - 1))

(* --------------------------- grid files ------------------------------ *)

\* PHOENIXLibrary._keys_for_indexing
_keys_for_indexing == <<"temperature", "logg", "metallicity">>

\* PHOENIXLibrary._available_resolutions
_available_resolutions == <<3, 10, 30, 100, 300, 1000, 3000, 10000, 30000, 100000>>

\* the resolutions whose grid files the model loads and creates
GridRs == {3, 10, 30, 100, 300}

\* the strings astropy's u.Unit parses
KnownUnits == {"micron", "ph/(s m**2 nm)", "W/(m**2 nm)"}

\* the flux array stored for lattice point k: one value per wavelength bin
Flux(k, off) == <<RInt(10 * k[1] + k[2] + off), RInt(5 * k[3] + k[2] + 1 + off)>>

\* what _create_grid saves: [shared, d], with shared[k] = np.unique of the
\* k-th coordinate of the keys of d
SavedGrid(keys, off, wave, wunit, sunit) ==
    [metadata |->
        [temperature     |-> Unique({k[1] : k \in keys}),
         logg            |-> Unique({k[2] : k \in keys}),
         metallicity     |-> Unique({k[3] : k \in keys}),
         wavelength      |-> wave,
         wavelength_unit |-> wunit,
         spectrum_unit   |-> sunit],
     models |-> [k \in keys |-> Flux(k, off)]]

FullLattice == {<<t, g, z>> : t \in {1, 3}, g \in {0, 2, 4}, z \in {0, 2}}

SparseLattice == {<<1, 1, 0>>, <<1, 3, 0>>, <<3, 3, 0>>}

\* the files found on disk before anything is created: a fully populated
\* grid (R=3), a grid with a lattice point missing (R=10), a file whose
\* wavelength array is longer than its flux arrays (R=30), a file whose
\* spectrum unit string does not parse (R=100), and no file (R=300)
ShippedGrid(R) ==
    CASE R = 3   -> SavedGrid(FullLattice, 0, <<5, 6>>, "micron", "ph/(s m**2 nm)")
      [] R = 10  -> SavedGrid(SparseLattice, 100, <<7, 8>>, "micron", "ph/(s m**2 nm)")
      [] R = 30  -> SavedGrid({<<1, 1, 0>>, <<3, 1, 0>>}, 200, <<1, 2, 3>>,
                              "micron", "W/(m**2 nm)")
      [] R = 100 -> SavedGrid({<<1, 1, 0>>, <<1, 3, 0>>}, 300, <<3, 4>>, "micron", "photons")

\* the file _create_grid writes for resolution R from the raw spectra: the
\* flux arrays have the length of the shared wavelength array (asserted)
CreatedGrid(R) ==
    SavedGrid({<<1, 1, 0>>, <<3, 1, 0>>, <<1, 3, 2>>}, 400 + R, <<R, R + 1>>,
              "micron", "ph/(s m**2 nm)")

GridFile(d, R) == IF d[R] = "created" THEN CreatedGrid(R) ELSE ShippedGrid(R)

(* ------------------------- _find_smallest_R --------------------------- *)

\* np.flatnonzero(np.array(self._available_resolutions) >= R): the 0-based
\* indices at which the comparison is true, ascending
flatnonzero_ge(R) ==
    SelectSeq([j \in 1..Len(_available_resolutions) |-> j - 1],
              LAMBDA j : _available_resolutions[j + 1] >= R)

\* mutant: the comparison is > instead of >=
_find_smallest_R_strict(R) ==
    LET found == SelectSeq([j \in 1..Len(_available_resolutions) |-> j - 1],
                           LAMBDA j : _available_resolutions[j + 1] > R) IN
    IF found = <<>>
    THEN [status |-> "IndexError", value |-> 0, warned |-> FALSE]
    ELSE [status |-> "ok", value |-> _available_resolutions[found[1] + 1],
          warned |-> FALSE]

\* i = flatnonzero(...)[0] raises IndexError on an empty array; otherwise i
\* is an integer, so "i is not None" holds and the warning branch never runs
_find_smallest_R(R) ==
    LET found == flatnonzero_ge(R) IN
    IF found = <<>>
    THEN [status |-> "IndexError", value |-> 0, warned |-> FALSE]
    ELSE [status |-> "ok", value |-> _available_resolutions[found[1] + 1],
          warned |-> FALSE]

(* ---------------------------- _find_bounds ---------------------------- *)

\* mutant: the exact-match branch is never taken
_find_bounds_no_exact(possible, value) ==
    LET gt == SelectSeq(possible, LAMBDA a : a > value)
        le == SelectSeq(possible, LAMBDA a : a <= value)
    IN  IF gt = <<>> \/ le = <<>>
        THEN [status |-> "ValueError", bounds |-> <<>>]
        ELSE [status |-> "ok", bounds |-> <<np_max(le), np_min(gt)>>]

\* mutant: a value outside the axis is clamped to the nearest grid value
_find_bounds_clamped(possible, value) ==
    IF \E i \in 1..Len(possible) : possible[i] = value
    THEN [status |-> "ok", bounds |-> <<value>>]
    ELSE LET gt == SelectSeq(possible, LAMBDA a : a > value)
             le == SelectSeq(possible, LAMBDA a : a <= value)
         IN  IF gt = <<>> THEN [status |-> "ok", bounds |-> <<np_max(le)>>]
             ELSE IF le = <<>> THEN [status |-> "ok", bounds |-> <<np_min(gt)>>]
             ELSE [status |-> "ok", bounds |-> <<np_max(le), np_min(gt)>>]

\* mutant: np.min and np.max are exchanged
_find_bounds_widest(possible, value) ==
    IF \E i \in 1..Len(possible) : possible[i] = value
    THEN [status |-> "ok", bounds |-> <<value>>]
    ELSE LET gt == SelectSeq(possible, LAMBDA a : a > value)
             le == SelectSeq(possible, LAMBDA a : a <= value)
         IN  IF gt = <<>> \/ le = <<>>
             THEN [status |-> "ValueError", bounds |-> <<>>]
             ELSE [status |-> "ok", bounds |-> <<np_min(le), np_max(gt)>>]

\* mutant: no exact-match branch, and above is the least value >= the query
_find_bounds_tie(possible, value) ==
    LET ge == SelectSeq(possible, LAMBDA a : a >= value)
        le == SelectSeq(possible, LAMBDA a : a <= value)
    IN  IF ge = <<>> \/ le = <<>>
        THEN [status |-> "ValueError", bounds |-> <<>>]
        ELSE [status |-> "ok", bounds |-> <<np_max(le), np_min(ge)>>]

\* mutant: the range is min <= value < max, as the error message words it
_find_bounds_half_open(possible, value) ==
    LET gt == SelectSeq(possible, LAMBDA a : a > value)
        le == SelectSeq(possible, LAMBDA a : a <= value)
    IN  IF gt = <<>> \/ le = <<>>
        THEN [status |-> "ValueError", bounds |-> <<>>]
        ELSE IF \E i \in 1..Len(possible) : possible[i] = value
        THEN [status |-> "ok", bounds |-> <<value>>]
        ELSE [status |-> "ok", bounds |-> <<np_max(le), np_min(gt)>>]

\* possible is self.metadata[key], an ascending array
_find_bounds(possible, value) ==
    IF \E i \in 1..Len(possible) : possible[i] = value
    THEN [status |-> "ok", bounds |-> <<value>>]
    ELSE LET gt    == SelectSeq(possible, LAMBDA a : a > value)
             le    == SelectSeq(possible, LAMBDA a : a <= value)
         IN  IF gt = <<>> \/ le = <<>>
             THEN [status |-> "ValueError", bounds |-> <<>>]
             ELSE [status |-> "ok", bounds |-> <<np_max(le), np_min(gt)>>]

(* --------------------- _get_interpolation_weights --------------------- *)

\* mutant: weight_above repeats the numerator of weight_below
_get_interpolation_weights_same(value, bounds) ==
    IF Len(bounds) = 1 THEN <<RInt(1)>>
    ELSE IF Len(bounds) = 2
    THEN LET span == bounds[2] - bounds[1]
             weight_below == Rat(bounds[2] - value, span)
             weight_above == Rat(bounds[2] - value, span)
         IN  <<weight_below, weight_above>>
    ELSE <<>>

\* mutant: the two weights are returned in the other order
_get_interpolation_weights_swapped(value, bounds) ==
    IF Len(bounds) = 1 THEN <<RInt(1)>>
    ELSE IF Len(bounds) = 2
    THEN LET span == bounds[2] - bounds[1]
             weight_below == Rat(bounds[2] - value, span)
             weight_above == Rat(value - bounds[1], span)
         IN  <<weight_above, weight_below>>
    ELSE <<>>

\* mutant: the differences are not divided by the span
_get_interpolation_weights_unscaled(value, bounds) ==
    IF Len(bounds) = 1 THEN <<RInt(1)>>
    ELSE IF Len(bounds) = 2
    THEN LET weight_below == RInt(bounds[2] - value)
             weight_above == RInt(value - bounds[1])
         IN  <<weight_below, weight_above>>
    ELSE <<>>

\* np.size(bounds) is 1 for [value] and 2 for (below, above)
_get_interpolation_weights(value, bounds) ==
    IF Len(bounds) = 1 THEN <<RInt(1)>>
    ELSE IF Len(bounds) = 2
    THEN LET span == bounds[2] - bounds[1]
             weight_below == Rat(bounds[2] - value, span)
             weight_above == Rat(value - bounds[1], span)
         IN  <<weight_below, weight_above>>
    ELSE <<>>

(* ---------------------------- get_spectrum ---------------------------- *)

\* an attribute of the library object: <<>> until it is first assigned
NoAttr == <<>>

\* what a get_spectrum call leaves behind: how it ended, the per-axis
\* bounds, the per-axis weights (weight_temperature, weight_logg,
\* weight_metallicity), the keys looked up in order, the weights before and
\* after "weights /= weight_sum", and the returned pair
NoSpectrum ==
    [status |-> "", bounds |-> <<>>, axis_weights |-> <<>>,
     keys |-> <<>>, weights |-> <<>>,
     weight_sum |-> NaN, normed |-> <<>>, wavelength |-> <<>>,
     spectrum |-> <<>>, unit |-> ""]

\* the i-th (0-based) pass of the three nested zip loops over the bounding
\* temperatures, loggs and metallicities: the weight product and the key
Corner(i, wT, bT, wg, bg, wz, bz) ==
    LET iz == (i % Len(bz)) + 1
        ig == ((i \div Len(bz)) % Len(bg)) + 1
        it == (i \div (Len(bz) * Len(bg))) + 1
    IN  [weight |-> RMul(RMul(wT[it], wg[ig]), wz[iz]),
         key    |-> <<bT[it], bg[ig], bz[iz]>>]

\* np.isclose(weight_sum, 1): |weight_sum - 1| <= atol + rtol * 1
isclose_1(x) ==
    LET e == RAbs(RSub(x, RInt(1)))
    IN  ~IsNaN(e) /\ e[1] <= (1001 * e[2]) \div 100000000

\* np.sum(weights[:, np.newaxis] * spectra, axis=0)
WeightedSum(weights, spectra) ==
    [j \in 1..Len(spectra[1]) |->
        RSum([i \in 1..Len(weights) |-> RMul(weights[i], spectra[i][j])])]

\* the return statement: self.wavelength and spectrum * self.units["spectrum"]
Returned(un, wl, partial, spectrum) ==
    IF wl = NoAttr \/ un = NoAttr
    THEN [partial EXCEPT !.status = "AttributeError"]
    ELSE [partial EXCEPT !.status = "ok", !.wavelength = wl[1],
                         !.spectrum = spectrum, !.unit = un[1].spectrum]

\* mutant: a corner whose key is absent is skipped instead of raising
Interpolated_skip_absent(mo, un, wl, temperature, logg, metallicity, bT, bg, bz) ==
    LET N    == Len(bT) * Len(bg) * Len(bz)
        bounding_logT == [i \in 1..Len(bT) |-> Log(bT[i])]
        wT   == _get_interpolation_weights(Log(temperature), bounding_logT)
        wg   == _get_interpolation_weights(logg, bg)
        wz   == _get_interpolation_weights(metallicity, bz)
        all  == [i \in 1..N |-> Corner(i - 1, wT, bT, wg, bg, wz, bz)]
        corners == SelectSeq(all, LAMBDA c : c.key \in DOMAIN mo[1])
        M    == Len(corners)
        weights == [i \in 1..M |-> corners[i].weight]
        keys    == [i \in 1..M |-> corners[i].key]
        weight_sum == RSum(weights)
        normed  == [i \in 1..M |-> RDiv(weights[i], weight_sum)]
        spectra == [i \in 1..M |-> mo[1][keys[i]]]
        out  == [NoSpectrum EXCEPT !.bounds = <<bT, bg, bz>>]
    IN  IF M = 0 THEN [out EXCEPT !.status = "KeyError"]
        ELSE Returned(un, wl,
                      [out EXCEPT !.keys = keys, !.weights = weights,
                                  !.weight_sum = weight_sum, !.normed = normed],
                      WeightedSum(normed, spectra))

\* the else branch of get_spectrum: N > 1
Interpolated(mo, un, wl, temperature, logg, metallicity, bT, bg, bz) ==
    LET N    == Len(bT) * Len(bg) * Len(bz)
        logT == Log(temperature)
        bounding_logT == [i \in 1..Len(bT) |-> Log(bT[i])]
        wT   == _get_interpolation_weights(logT, bounding_logT)
        wg   == _get_interpolation_weights(logg, bg)
        wz   == _get_interpolation_weights(metallicity, bz)
        corners == [i \in 1..N |-> Corner(i - 1, wT, bT, wg, bg, wz, bz)]
        absent  == {i \in 1..N : corners[i].key \notin DOMAIN mo[1]}
        weights == [i \in 1..N |-> corners[i].weight]
        keys    == [i \in 1..N |-> corners[i].key]
        weight_sum == RSum(weights)
        out  == [NoSpectrum EXCEPT !.bounds = <<bT, bg, bz>>,
                                   !.axis_weights = <<wT, wg, wz>>]
    IN  IF absent # {}
        THEN \* self.models[key] raises on the first absent key
             LET first == CHOOSE i \in absent : \A j \in absent : i <= j
             IN  [out EXCEPT !.status = "KeyError", !.keys = SubSeq(keys, 1, first)]
        ELSE IF ~(isclose_1(weight_sum) \/ RLe(weight_sum, RInt(1)))
        THEN [out EXCEPT !.status = "AssertionError", !.keys = keys,
                         !.weights = weights, !.weight_sum = weight_sum]
        ELSE LET normed  == [i \in 1..N |-> RDiv(weights[i], weight_sum)]
                 spectra == [i \in 1..N |-> mo[1][keys[i]]]
             IN  Returned(un, wl,
                          [out EXCEPT !.keys = keys, !.weights = weights,
                                      !.weight_sum = weight_sum,
                                      !.normed = normed],
                          WeightedSum(normed, spectra))

\* get_spectrum(temperature, logg, metallicity) on a library whose
\* attributes are md, mo, un, wl
get_spectrum(md, mo, un, wl, temperature, logg, metallicity) ==
    IF md = NoAttr THEN [NoSpectrum EXCEPT !.status = "AttributeError"]
    ELSE
    LET fT == _find_bounds(md[1].temperature, temperature)
        fg == _find_bounds(md[1].logg, logg)
        fz == _find_bounds(md[1].metallicity, metallicity)
    IN  IF fT.status # "ok" \/ fg.status # "ok" \/ fz.status # "ok"
        THEN [NoSpectrum EXCEPT !.status = "ValueError"]
        ELSE LET bT == fT.bounds
                 bg == fg.bounds
                 bz == fz.bounds
                 N  == Len(bT) * Len(bg) * Len(bz)
                 out == [NoSpectrum EXCEPT !.bounds = <<bT, bg, bz>>]
             IN  IF N = 1
                 THEN LET key == <<bT[1], bg[1], bz[1]>>
                      IN  IF key \notin DOMAIN mo[1]
                          THEN [out EXCEPT !.status = "KeyError", !.keys = <<key>>]
                          ELSE Returned(un, wl,
                                        [out EXCEPT !.keys = <<key>>,
                                                    !.weights = <<RInt(1)>>],
                                        mo[1][key])
                 ELSE Interpolated(mo, un, wl, temperature, logg, metallicity,
                                   bT, bg, bz)

\* mutant: the sum is accumulated in place into the first array looked up
models_after_get_spectrum_inplace(mo, out) ==
    IF out.status = "ok" /\ Len(out.keys) > 1
    THEN <<[mo[1] EXCEPT ![out.keys[1]] = out.spectrum]>>
    ELSE mo

\* self.models after a get_spectrum call: the exact branch returns a
\* flattened copy and the other branch sums into a new array, so no stored
\* array is written
models_after_get_spectrum(mo, out) == mo

(* ----------------------------- _load_grid ----------------------------- *)

\* u.Unit(string)
Unit(s) == IF s \in KnownUnits THEN <<s>> ELSE <<>>

\* _load_grid(R): the attributes afterwards and how the call ended
_load_grid(dir, d, md, mo, un, wl, R) ==
    LET same == [status |-> "", metadata |-> md, models |-> mo,
                 units |-> un, wavelength |-> wl]
    IN  IF ~dir THEN [same EXCEPT !.status = "AttributeError"]
        ELSE IF d[R] = "missing" THEN [same EXCEPT !.status = "FileNotFoundError"]
        ELSE LET file  == GridFile(d, R)
                 uw    == Unit(file.metadata.wavelength_unit)
                 us    == Unit(file.metadata.spectrum_unit)
                 read  == [same EXCEPT !.metadata = <<file.metadata>>,
                                       !.models = <<file.models>>]
             IN  IF uw = <<>> \/ us = <<>>
                 THEN [read EXCEPT !.status = "ValueError"]
                 ELSE [read EXCEPT !.status = "ok",
                          !.units = <<[wavelength |-> uw[1], spectrum |-> us[1]]>>,
                          !.wavelength = <<[value |-> file.metadata.wavelength,
                                            unit  |-> uw[1]]>>]

(* ---------------------------- _create_grid ---------------------------- *)

\* the resolutions _create_grid is called with
CreateRs == {30, 300}

\* _create_grid(R, remake): the disk afterwards and how the call ended.
\* raw_ok says whether the raw spectra could be downloaded (or were cached)
_create_grid(d, R, remake, raw_ok) ==
    IF ~raw_ok THEN [status |-> "DownloadError", disk |-> d]
    ELSE IF d[R] # "missing" /\ ~remake THEN [status |-> "exists", disk |-> d]
    ELSE [status |-> "saved", disk |-> [d EXCEPT ![R] = "created"]]

(* ------------------------------ actions ------------------------------- *)

\* the resolutions _find_smallest_R is asked for
RequestedRs ==
    UNION {{r - 1, r, r + 1} : r \in Range(_available_resolutions)} \cup {450, 200000}

\* the values a query may ask for on each axis
QueryValues(key) ==
    CASE key = "temperature" -> 0..MaxT
      [] key = "logg"        -> 0..MaxG
      [] key = "metallicity" -> 0..MaxZ

Init ==
    /\ disk = [R \in GridRs |-> IF R = 300 THEN "missing" ELSE "shipped"]
    /\ directory = FALSE
    /\ metadata = NoAttr
    /\ models = NoAttr
    /\ units = NoAttr
    /\ wavelength = NoAttr
    /\ last = [op |-> "__init__", args |-> <<>>, out |-> <<>>]

CreateGrid(R, remake, raw_ok) ==
    LET r == _create_grid(disk, R, remake, raw_ok) IN
    /\ directory' = TRUE
    /\ disk' = r.disk
    /\ last' = [op |-> "_create_grid", args |-> <<R>>, out |-> r.status]
    /\ UNCHANGED grid

LoadGrid(R) ==
    LET r == _load_grid(directory, disk, metadata, models, units, wavelength, R) IN
    /\ metadata' = r.metadata
    /\ models' = r.models
    /\ units' = r.units
    /\ wavelength' = r.wavelength
    /\ last' = [op |-> "_load_grid", args |-> <<R>>, out |-> r.status]
    /\ UNCHANGED <<disk, directory>>

GetSpectrum(temperature, logg, metallicity) ==
    LET out == get_spectrum(metadata, models, units, wavelength,
                            temperature, logg, metallicity) IN
    /\ models' = models_after_get_spectrum(models, out)
    /\ last' = [op |-> "get_spectrum", args |-> <<temperature, logg, metallicity>>,
                out |-> out]
    /\ UNCHANGED <<disk, directory, metadata, units, wavelength>>

FindBounds(key, value) ==
    /\ last' = [op |-> "_find_bounds", args |-> <<key, value>>,
                out |-> IF metadata = NoAttr
                        THEN [status |-> "AttributeError", bounds |-> <<>>]
                        ELSE _find_bounds(metadata[1][key], value)]
    /\ UNCHANGED <<disk, directory, grid>>

\* the bounds a direct call passes: [b] or (below, above) with below <= above
WeightBounds ==
    {<<b>> : b \in 0..MaxW} \cup {<<lo, hi>> : lo \in 0..MaxW, hi \in 0..MaxW}

GetInterpolationWeights(value, bounds) ==
    /\ last' = [op |-> "_get_interpolation_weights", args |-> <<value, bounds>>,
                out |-> _get_interpolation_weights(value, bounds)]
    /\ UNCHANGED <<disk, directory, grid>>

FindSmallestR(R) ==
    /\ last' = [op |-> "_find_smallest_R", args |-> <<R>>, out |-> _find_smallest_R(R)]
    /\ UNCHANGED <<disk, directory, grid>>

Next ==
    \/ \E R \in CreateRs, remake \in BOOLEAN, raw_ok \in BOOLEAN :
          CreateGrid(R, remake, raw_ok)
    \/ \E R \in GridRs : LoadGrid(R)
    \/ \E t \in QueryValues("temperature"), g \in QueryValues("logg"),
          z \in QueryValues("metallicity") : GetSpectrum(t, g, z)
    \/ \E key \in Range(_keys_for_indexing) :
          \E value \in QueryValues(key) : FindBounds(key, value)
    \/ \E R \in RequestedRs : FindSmallestR(R)
    \/ \E value \in 0..MaxW, bounds \in WeightBounds :
          bounds[1] <= bounds[Len(bounds)] /\ GetInterpolationWeights(value, bounds)

Spec == Init /\ [][Next]_vars

(* ------------------------- reading the state -------------------------- *)

Loaded == metadata # NoAttr /\ models # NoAttr

Ready == Loaded /\ units # NoAttr /\ wavelength # NoAttr

AxisSet(key) == Range(metadata[1][key])

Keys == DOMAIN models[1]

Called(op) == last.op = op

\* the grid values that enclose v on an axis whose values are S: v itself
\* when it is one of them, else its nearest neighbour on either side
Enclosing(S, v) ==
    IF v \in S THEN {v}
    ELSE {b \in S : b < v /\ \A c \in S : c < v => c <= b}
         \cup {a \in S : a > v /\ \A c \in S : c > v => a <= c}

InRange(S, v) == (\E a \in S : a <= v) /\ (\E b \in S : v <= b)

\* the keys a query needs: one per combination of enclosing grid values
CornerKeys(q) ==
    {<<t, g, z>> : t \in Enclosing(AxisSet("temperature"), q[1]),
                   g \in Enclosing(AxisSet("logg"), q[2]),
                   z \in Enclosing(AxisSet("metallicity"), q[3])}

QueryInRange(q) ==
    /\ InRange(AxisSet("temperature"), q[1])
    /\ InRange(AxisSet("logg"), q[2])
    /\ InRange(AxisSet("metallicity"), q[3])

Identity(x) == x

\* the linear-interpolation weight of grid value b for a query at v, on an
\* axis whose values are S, measured on the scale F
AxisWeight(S, v, b, F(_)) ==
    IF v \in S THEN RInt(1)
    ELSE LET lo == CHOOSE x \in Enclosing(S, v) : x < v
             hi == CHOOSE x \in Enclosing(S, v) : x > v
         IN  IF b = lo THEN Rat(F(hi) - F(v), F(hi) - F(lo))
                       ELSE Rat(F(v) - F(lo), F(hi) - F(lo))

KeyWeight(q, k) ==
    RMul(RMul(AxisWeight(AxisSet("temperature"), q[1], k[1], Log),
              AxisWeight(AxisSet("logg"), q[2], k[2], Identity)),
         AxisWeight(AxisSet("metallicity"), q[3], k[3], Identity))

RECURSIVE SumOver(_, _)
SumOver(S, f) ==
    IF S = {} THEN RInt(0)
    ELSE LET k == CHOOSE x \in S : TRUE IN RAdd(f[k], SumOver(S \ {k}, f))

\* the weighted sum of the corner spectra, bin by bin
HandSum(q) ==
    [j \in 1..Len(models[1][CHOOSE k \in CornerKeys(q) : TRUE]) |->
        SumOver(CornerKeys(q),
                [k \in CornerKeys(q) |-> RMul(KeyWeight(q, k), models[1][k][j])])]

MaxResolution == np_max(_available_resolutions)

(* ------------------------------- claims ------------------------------- *)

\* C1: a query whose (temperature, logg, metallicity) is a key of the loaded
\* grid returns the flux array stored under that key, after one lookup, with
\* the single weight 1 and no renormalisation.
C1_ExactKeyReturnsStored ==
    (Called("get_spectrum") /\ Ready /\ last.args \in Keys) =>
        /\ last.out.status = "ok"
        /\ last.out.spectrum = models[1][last.args]
        /\ last.out.keys = <<last.args>>
        /\ last.out.weights = <<RInt(1)>>
        /\ last.out.normed = <<>>

C1_Witness ==
    /\ Called("get_spectrum") /\ Ready /\ last.args \in Keys
    /\ last.out.status = "ok"
    /\ last.out.spectrum = models[1][last.args]

\* C2: a value below every grid value of its axis, or above every one,
\* makes _find_bounds raise; no bound is returned.
C2_OutOfRangeRaises ==
    (Called("_find_bounds") /\ Loaded
        /\ LET S == AxisSet(last.args[1])
               v == last.args[2]
           IN  (\A a \in S : v < a) \/ (\A a \in S : v > a)) =>
        /\ last.out.status = "ValueError"
        /\ last.out.bounds = <<>>

C2_Witness ==
    /\ Called("_find_bounds") /\ Loaded
    /\ \A a \in AxisSet(last.args[1]) : last.args[2] > a
    /\ last.out.status = "ValueError"

\* C3: when _find_bounds returns, it returns either the query value alone
\* (the query is a grid value) or the pair (below, above) of the greatest
\* grid value <= the query and the least grid value > the query, so that
\* below <= value <= above and no grid value lies strictly between them.
C3_BoundsEnclose ==
    (Called("_find_bounds") /\ Loaded /\ last.out.status = "ok") =>
        LET S == AxisSet(last.args[1])
            v == last.args[2]
            b == last.out.bounds
        IN  \/ Len(b) = 1 /\ b[1] = v /\ v \in S
            \/ /\ Len(b) = 2 /\ v \notin S
               /\ b[1] \in S /\ b[1] <= v /\ \A a \in S : a <= v => a <= b[1]
               /\ b[2] \in S /\ b[2] > v /\ \A a \in S : a > v => b[2] <= a
               /\ b[1] <= v /\ v <= b[2]
               /\ ~\E a \in S : b[1] < a /\ a < b[2]

C3_Witness ==
    /\ Called("_find_bounds") /\ Loaded /\ last.out.status = "ok"
    /\ Len(last.out.bounds) = 2
    /\ \E a \in AxisSet(last.args[1]) : a < last.out.bounds[1]

\* C4: for a requested resolution that does not exceed the largest available
\* one, _find_smallest_R returns the smallest available resolution that is
\* >= the request; 450 gives 1000 and 100000 gives 100000.
C4_SmallestSufficientR ==
    (Called("_find_smallest_R") /\ last.args[1] <= MaxResolution) =>
        LET R == last.args[1]
            A == Range(_available_resolutions)
        IN  /\ last.out.status = "ok"
            /\ last.out.value \in A
            /\ last.out.value >= R
            /\ \A a \in A : a >= R => last.out.value <= a
            /\ (R = 450 => last.out.value = 1000)
            /\ (R = 100000 => last.out.value = 100000)

C4_Witness ==
    /\ Called("_find_smallest_R") /\ last.args[1] = 450
    /\ last.out.status = "ok" /\ last.out.value = 1000

\* C5: a requested resolution above the largest available one gives a
\* warning, no error, and the largest available resolution.
C5_TooLargeWarnsAndReturnsMax ==
    (Called("_find_smallest_R") /\ last.args[1] > MaxResolution) =>
        /\ last.out.status = "ok"
        /\ last.out.warned
        /\ last.out.value = MaxResolution

\* C6: when every coordinate of a query is within its axis and one of the
\* keys built from the enclosing grid values is absent from models,
\* get_spectrum raises a key error and returns no spectrum.
C6_AbsentCornerRaises ==
    (Called("get_spectrum") /\ Loaded /\ QueryInRange(last.args)
        /\ \E k \in CornerKeys(last.args) : k \notin Keys) =>
        /\ last.out.status = "KeyError"
        /\ last.out.spectrum = <<>>
        /\ last.out.wavelength = <<>>

C6_Witness ==
    /\ Called("get_spectrum") /\ Loaded /\ QueryInRange(last.args)
    /\ \E k \in CornerKeys(last.args) : k \notin Keys
    /\ \E k \in CornerKeys(last.args) : k \in Keys
    /\ last.out.status = "KeyError"
    /\ Len(last.out.keys) > 1

\* C7: for an in-range query that is not an exact match on all three axes
\* and whose corner keys are all present, the combined weights sum to 1
\* before "weights /= weight_sum": the assertion holds and the division
\* leaves every weight as it was.
C7_WeightsSumToOne ==
    (Called("get_spectrum") /\ Loaded /\ QueryInRange(last.args)
        /\ Cardinality(CornerKeys(last.args)) > 1
        /\ CornerKeys(last.args) \subseteq Keys) =>
        /\ last.out.status # "AssertionError"
        /\ Len(last.out.weights) = Cardinality(CornerKeys(last.args))
        /\ last.out.weight_sum = RInt(1)
        /\ last.out.normed = last.out.weights

C7_Witness ==
    /\ Called("get_spectrum") /\ Ready
    /\ Len(last.out.weights) = 8
    /\ last.out.weight_sum = RInt(1)
    /\ \A i \in 1..8 : last.out.weights[i] # RInt(0)

\* C8: a query that is not an exact match and returns a spectrum looked up
\* exactly the Cartesian product of the per-axis enclosing grid values, each
\* key once, and returns the sum over those keys of
\* (weight_T * weight_logg * weight_Z) * models[key], each per-axis weight
\* being the one of the grid value used in the key.
C8_WeightedSumOverCorners ==
    (Called("get_spectrum") /\ Ready /\ last.out.status = "ok"
        /\ Cardinality(CornerKeys(last.args)) > 1) =>
        /\ Range(last.out.keys) = CornerKeys(last.args)
        /\ Len(last.out.keys) = Cardinality(CornerKeys(last.args))
        /\ Len(last.out.keys) \in {2, 4, 8}
        /\ \A i \in 1..Len(last.out.keys) :
              last.out.normed[i] = KeyWeight(last.args, last.out.keys[i])
        /\ last.out.spectrum = HandSum(last.args)

C8_Witness ==
    /\ Called("get_spectrum") /\ Ready /\ last.out.status = "ok"
    /\ Len(last.out.keys) = 4
    /\ last.out.spectrum = HandSum(last.args)
    /\ \E i, j \in 1..4 : last.out.normed[i] # last.out.normed[j]

\* C9: a get_spectrum call, whether it returns or raises, leaves metadata,
\* models, units and wavelength as they were, and its answer is the answer
\* the same query gets from the grid as it stands after the call.
C9_GetSpectrumLeavesGrid ==
    [][last'.op = "get_spectrum" =>
          /\ grid' = grid
          /\ last'.out = get_spectrum(metadata', models', units', wavelength',
                                      last'.args[1], last'.args[2], last'.args[3])]_vars

C9_Witness ==
    /\ Called("get_spectrum") /\ Ready /\ last.out.status = "ok"
    /\ Len(last.out.keys) = 2

\* C10: a grid whose flux arrays are not as long as its wavelength array is
\* not installed: after a load that succeeded every flux array in models has
\* the length of wavelength.
C10_LoadedLengthsAgree ==
    (Called("_load_grid") /\ last.out = "ok") =>
        \A k \in Keys : Len(models[1][k]) = Len(wavelength[1].value)

\* C11: for (below, above) with below < value < above,
\* _get_interpolation_weights returns ((above - value) / (above - below),
\* (value - below) / (above - below)) in that order, both non-negative and
\* summing to 1, and for a single bound it returns the weight 1; in
\* get_spectrum the i-th weight of an axis belongs to the i-th bound of that
\* axis, temperature being weighted on the log scale and logg and metallicity
\* on their own.
C11_WeightsFormulaAndPairing ==
    /\ Called("_get_interpolation_weights") =>
          LET v == last.args[1]
              b == last.args[2]
              w == last.out
          IN  /\ Len(b) = 1 => w = <<RInt(1)>>
              /\ (Len(b) = 2 /\ b[1] < v /\ v < b[2]) =>
                    /\ Len(w) = 2
                    /\ w[1] = Rat(b[2] - v, b[2] - b[1])
                    /\ w[2] = Rat(v - b[1], b[2] - b[1])
                    /\ RLe(RInt(0), w[1]) /\ RLe(RInt(0), w[2])
                    /\ RAdd(w[1], w[2]) = RInt(1)
    /\ (Called("get_spectrum") /\ Loaded /\ QueryInRange(last.args)
            /\ Cardinality(CornerKeys(last.args)) > 1) =>
          /\ Len(last.out.axis_weights) = 3
          /\ \A a \in 1..3 :
                /\ Len(last.out.axis_weights[a]) = Len(last.out.bounds[a])
                /\ \A i \in 1..Len(last.out.bounds[a]) :
                      last.out.axis_weights[a][i] =
                          IF a = 1
                          THEN AxisWeight(AxisSet(_keys_for_indexing[a]), last.args[a],
                                          last.out.bounds[a][i], Log)
                          ELSE AxisWeight(AxisSet(_keys_for_indexing[a]), last.args[a],
                                          last.out.bounds[a][i], Identity)

C11_Witness ==
    /\ Called("get_spectrum") /\ Ready /\ last.out.status = "ok"
    /\ Len(last.out.bounds[1]) = 2
    /\ last.out.axis_weights[1][1] # last.out.axis_weights[1][2]
    /\ last.out.axis_weights[1][1] =
          Rat(Log(last.out.bounds[1][2]) - Log(last.args[1]),
              Log(last.out.bounds[1][2]) - Log(last.out.bounds[1][1]))

\* the span _get_interpolation_weights divides by for axis a (1: temperature,
\* on the log scale) when the bounds of that axis are b
SpanOf(a, b) == IF a = 1 THEN Log(b[2]) - Log(b[1]) ELSE b[2] - b[1]

\* C12: a query value that is a grid value always gets the exact-match
\* branch of _find_bounds; so every pair it returns has
\* below < value < above, and in every get_spectrum call the span each
\* two-sided axis is divided by is not zero and no weight is nan.
C12_ExactWinsSpanNonZero ==
    /\ (Called("_find_bounds") /\ Loaded) =>
          LET S == AxisSet(last.args[1])
              v == last.args[2]
              b == last.out.bounds
          IN  /\ v \in S => (last.out.status = "ok" /\ b = <<v>>)
              /\ Len(b) = 2 => (b[1] < v /\ v < b[2] /\ b[1] # b[2])
    /\ (Called("get_spectrum") /\ Loaded /\ QueryInRange(last.args)) =>
          /\ Len(last.out.bounds) = 3
          /\ \A a \in 1..3 :
                LET b == last.out.bounds[a]
                    v == last.args[a]
                IN  /\ v \in AxisSet(_keys_for_indexing[a]) => b = <<v>>
                    /\ Len(b) = 2 =>
                          /\ b[1] < v /\ v < b[2]
                          /\ SpanOf(a, b) # 0
          /\ \A a \in 1..Len(last.out.axis_weights) :
                \A i \in 1..Len(last.out.axis_weights[a]) :
                    ~IsNaN(last.out.axis_weights[a][i])

C12_Witness ==
    /\ Called("get_spectrum") /\ Ready /\ last.out.status = "ok"
    /\ Len(last.out.bounds[1]) = 1
    /\ Len(last.out.bounds[2]) = 2
    /\ last.args[1] \in AxisSet("temperature")
    /\ SpanOf(2, last.out.bounds[2]) # 0

\* C13: a get_spectrum call never sees a partly replaced grid: the
\* wavelength and the spectrum unit it returns are those of the metadata
\* (and so of the models) it looked the spectrum up in, also when the call
\* follows a _load_grid that raised part-way.
C13_QuerySeesOneGrid ==
    (Called("get_spectrum") /\ Loaded /\ last.out.status = "ok") =>
        /\ last.out.wavelength.value = metadata[1].wavelength
        /\ <<last.out.wavelength.unit>> = Unit(metadata[1].wavelength_unit)
        /\ <<last.out.unit>> = Unit(metadata[1].spectrum_unit)

====
